---- MODULE Spec2Model ----
(***************************************************************************)
(* A model of components/model-viewer.tsx: the asset loader with bounded   *)
(* retry (ModelLoader inside ModelContent), the material bookkeeping and   *)
(* the teardown of ModelContent (handleModelLoad, toggleTextures, the      *)
(* effect cleanup), the draggable light (MovableLight), the save handler   *)
(* of ModelViewer (handleSaveModel) and tempToColor.                       *)
(*                                                                         *)
(* React is modelled at the granularity of its callbacks: a state update,  *)
(* the render it causes and the effect cleanups and effects of that render *)
(* are one atomic step.  Each subsystem has its own specification          *)
(* (SpecLoader, SpecMaterial, SpecLight, SpecSave, SpecChain, SpecColor)   *)
(* over the one set of variables; a specification holds the variables of   *)
(* the subsystems it does not move at their initial values.                *)
(*                                                                         *)
(* Numbers: the light's position and intensity are kept in units of 0.05   *)
(* (the drag scale), so position (2,2,2) is (40,40,40) and intensity 1 is  *)
(* 20; temperature is in Kelvin.  Pointer coordinates are integers, which  *)
(* makes every update an exact integer update.                             *)
(***************************************************************************)
EXTENDS Integers, Sequences, FiniteSets, TLC

VARIABLES
    \* ---- ModelContent / ModelLoader ----
    mounted,        \* ModelContent (and the viewer around it) is mounted
    url,            \* the url prop
    contentModel,   \* ModelContent's `model` state: 0 (null) or a scene
    loaderInst,     \* the mounted ModelLoader instance, 0 when none is mounted
    nInst,          \* ModelLoader instances created so far
    retryCount,     \* ModelLoader's retryCount state (of loaderInst)
    loaderModel,    \* ModelLoader's `model` state: 0 (null) or a scene
    modelError,     \* ModelLoader's modelError state: "null" or a message
    attempts,       \* every loader.load call made so far, in order
    onLoadLog,      \* the scenes passed to onLoad, in order
    onErrorLog,     \* the calls of onError, in order: [by, msg, err]
    delays,         \* the delays given to setTimeout, in order
    nUrlChanges,    \* url changes so far
    \* ---- ModelContent materials ----
    matPhase,       \* "parsed": scene delivered by the loader; "loaded": model set
    meshOrig,       \* mesh -> the material reference the parsed asset gave it
    meshMaterial,   \* mesh -> obj.material
    materials,      \* the materials.current Map: mesh -> reference, or NoRef
    nToggles,       \* toggleTextures calls on the loaded model
    geomDisposals,  \* mesh -> dispose() calls on its geometry
    matDisposals,   \* material -> dispose() calls on it
    \* ---- MovableLight ----
    lightState,     \* [x, y, z, intensity, temperature]
    isDragging,
    isAdjusting,
    prevPos,        \* prevPos.current
    controlsSet,    \* scene.userData.controls has been set
    controlsEnabled,\* the OrbitControls object's `enabled`
    lastEvent,      \* the handler that ran last
    downPos,        \* the pointer position of the latest shift-mousedown
    downLight,      \* lightState at the latest shift-mousedown
    nDrags,         \* shift-mousedowns so far
    dragMode,       \* the mode chosen by the shift-mousedown that started
                    \* the drag in progress, "idle" when none is
    \* ---- ModelViewer ----
    viewerError,    \* state.error: "null" or a message
    saving,         \* state.saving
    saveSuccess,    \* state.saveSuccess
    selectedProjectId, \* 0 (null) or a project
    saveRun,        \* the handleSaveModel call in progress: the await it is
                    \* at and the selectedProjectId its closure captured
    saveLog,        \* how the handleSaveModel calls so far ended, in order
    \* ---- tempToColor ----
    kelvin,         \* the argument of a tempToColor call
    color           \* its result: the channels, once the call has returned

loaderVars == <<mounted, url, contentModel, loaderInst, nInst, retryCount,
                loaderModel, modelError, attempts, onLoadLog, onErrorLog,
                delays, nUrlChanges>>
matVars == <<matPhase, meshOrig, meshMaterial, materials, nToggles,
             geomDisposals, matDisposals>>
lightVars == <<lightState, isDragging, isAdjusting, prevPos, controlsSet,
               controlsEnabled, lastEvent, downPos, downLight, nDrags,
               dragMode>>
saveRest == <<saving, saveSuccess, selectedProjectId, saveRun, saveLog>>
saveVars == <<viewerError, saveRest>>
colorVars == <<kelvin, color>>
vars == <<loaderVars, matVars, lightVars, saveVars, colorVars>>

(***************************************************************************)
(* Bounds of the model.                                                    *)
(***************************************************************************)
MaxAttempts == 6
MaxUrlChanges == 2
NumMeshes == 2
MaxToggles == 3
MaxDrags == 2
MaxSaves == 2

(***************************************************************************)
(* ModelLoader                                                             *)
(***************************************************************************)
maxRetries == 3

\* The values of the url prop.
Urls == {1, 2}

\* The values GLTFLoader may hand to the error callback: Error instances
\* with a message, and a value that is no Error (an event object).
ErrValues ==
    { [isError |-> TRUE, message |-> "e1"],
      [isError |-> TRUE, message |-> "e2"],
      [isError |-> FALSE, message |-> "e1"] }

\* the err field of an onError call that carries no loader error
NoErr == [isError |-> FALSE, message |-> "none"]

\* line 62
ErrorMessage(err) ==
    IF err.isError THEN err.message ELSE "Failed to load model"

\* A backoff that counts attempts from 1.
RetryDelayFromOne(rc) == 1000 * (rc + 1)

\* line 59: the delay handed to setTimeout
RetryDelay(rc) == 1000 * rc

\* A retry test that allows one retry too many.
ShouldRetryInclusive(rc) == rc <= maxRetries

\* line 58
ShouldRetry(rc) == rc < maxRetries

\* Callbacks that do not look at the canceled flag.
AppliesAlways(a) == TRUE

\* lines 50 and 57: the callbacks' `if (!canceled)`
Applies(a) == ~a.canceled

\* One loader.load call of the effect at lines 44-70, with what its closure
\* captured (instance, url, retryCount, the canceled flag).  status is
\* "inflight" until the load completes, then "loaded" or "failed"; applied
\* says whether the completion passed the `!canceled` test; timer is the
\* setTimeout of line 59: "none", "pending" or "fired"; threw says that
\* handleModelLoad threw on the loaded scene; disposals counts the runs of
\* the teardown (lines 143-152) on the loaded scene.
NewAttempt(inst, u, rc) ==
    [inst |-> inst, url |-> u, rc |-> rc, canceled |-> FALSE,
     status |-> "inflight", applied |-> FALSE, timer |-> "none",
     threw |-> FALSE, disposals |-> 0]

\* A teardown that leaves the model in place.
ModelKeptAfterTeardown(m) == m

\* line 152: ModelContent's model after the teardown of model m
ModelAfterTeardown(m) == 0

\* lines 142-154: n runs of the effect cleanup with model m in its closure;
\* with no model (m = 0) the cleanup does nothing.
Teardown(m, n, as) ==
    [i \in DOMAIN as |->
        IF i = m THEN [as[i] EXCEPT !.disposals = @ + n] ELSE as[i]]

\* line 69: the effect's cleanup sets the canceled flag of the instance's
\* latest attempt (earlier ones were cancelled when it was started).
CancelOf(inst, as) ==
    [i \in DOMAIN as |->
        IF as[i].inst = inst /\ inst # 0
        THEN [as[i] EXCEPT !.canceled = TRUE]
        ELSE as[i]]

\* The effect (re)runs for instance inst: cleanup of the previous run, then a
\* new load.
RunEffect(inst, u, rc, as) == Append(CancelOf(inst, as), NewAttempt(inst, u, rc))

InitLoader ==
    /\ mounted = TRUE
    /\ url = 1
    /\ contentModel = 0
    /\ loaderInst = 1
    /\ nInst = 1
    /\ retryCount = 0
    /\ loaderModel = 0
    /\ modelError = "null"
    /\ attempts = <<NewAttempt(1, url, 0)>>
    /\ onLoadLog = <<>>
    /\ onErrorLog = <<>>
    /\ delays = <<>>
    /\ nUrlChanges = 0

SetupMessage == "Failed to setup model materials"

\* lines 343-346: state.error after handleError(message), the onError that
\* ModelViewer hands down (line 462)
HandleError(message) == message

\* lines 49-54: the success callback of attempt i, with handleModelLoad
\* (lines 118-139) as onLoad.  throws: the material setup of the scene
\* throws.  When ModelContent's model is set, line 177 stops rendering the
\* ModelLoader, whose cleanup (line 69) runs and whose state is dropped.
LoadSucceeds(i, throws) ==
    /\ i \in DOMAIN attempts
    /\ attempts[i].status = "inflight"
    /\ LET a == attempts[i]
           ok == Applies(a)
           live == ok /\ loaderInst # 0 /\ a.inst = loaderInst
           shown == ok /\ mounted /\ ~throws
           as1 == [attempts EXCEPT ![i].status = "loaded", ![i].applied = ok,
                                   ![i].threw = ok /\ throws]
       IN  /\ onLoadLog' = IF ok THEN Append(onLoadLog, i) ELSE onLoadLog
           /\ onErrorLog' =
                IF ok /\ throws
                THEN Append(onErrorLog,
                            [by |-> "setup", msg |-> SetupMessage, err |-> NoErr])
                ELSE onErrorLog
           /\ contentModel' = IF shown THEN i ELSE contentModel
           /\ loaderModel' =
                IF shown THEN 0 ELSE IF live THEN i ELSE loaderModel
           /\ loaderInst' = IF shown THEN 0 ELSE loaderInst
           /\ retryCount' = IF shown THEN 0 ELSE retryCount
           /\ modelError' = IF shown THEN "null" ELSE modelError
           /\ attempts' = IF shown THEN CancelOf(loaderInst, as1) ELSE as1
           /\ viewerError' =
                IF ok /\ throws THEN HandleError(SetupMessage) ELSE viewerError
    /\ UNCHANGED <<mounted, url, nInst, delays, nUrlChanges>>

\* lines 56-67: the error callback of attempt i, called with err.  The
\* function it returns at line 60 is returned to GLTFLoader, which drops it.
LoadFails(i, err) ==
    /\ i \in DOMAIN attempts
    /\ attempts[i].status = "inflight"
    /\ LET a == attempts[i]
           ok == Applies(a)
           retry == ok /\ ShouldRetry(a.rc)
           terminal == ok /\ ~ShouldRetry(a.rc)
       IN  /\ attempts' =
                [attempts EXCEPT ![i].status = "failed", ![i].applied = ok,
                                 ![i].timer = IF retry THEN "pending" ELSE "none"]
           /\ delays' = IF retry THEN Append(delays, RetryDelay(a.rc)) ELSE delays
           /\ modelError' =
                IF terminal /\ loaderInst # 0 /\ a.inst = loaderInst
                THEN ErrorMessage(err) ELSE modelError
           /\ onErrorLog' =
                IF terminal
                THEN Append(onErrorLog,
                            [by |-> "loader", msg |-> ErrorMessage(err), err |-> err])
                ELSE onErrorLog
           /\ viewerError' =
                IF terminal THEN HandleError(ErrorMessage(err)) ELSE viewerError
    /\ UNCHANGED <<mounted, url, contentModel, loaderInst, nInst, retryCount,
                   loaderModel, onLoadLog, nUrlChanges>>

\* A timer callback that leaves retryCount as it is.
RetryCountKept(prev) == prev

\* line 59: the updater (prev) => prev + 1
NextRetryCount(prev) == prev + 1

\* line 59: the timer of attempt i fires and runs
\* setRetryCount((prev) => prev + 1).  On a mounted instance the new
\* retryCount re-runs the effect (dependency list, line 70); on an unmounted
\* one the update is dropped.  Nothing clears the timer: clearTimeout is
\* only in the function returned at line 60.
TimerFires(i) ==
    /\ i \in DOMAIN attempts
    /\ attempts[i].timer = "pending"
    /\ LET a == attempts[i]
           as1 == [attempts EXCEPT ![i].timer = "fired"]
       IN  IF loaderInst # 0 /\ a.inst = loaderInst
           THEN /\ Len(attempts) < MaxAttempts
                /\ retryCount' = NextRetryCount(retryCount)
                /\ attempts' =
                     IF NextRetryCount(retryCount) # retryCount
                     THEN RunEffect(loaderInst, url, NextRetryCount(retryCount), as1)
                     ELSE as1
           ELSE /\ retryCount' = retryCount
                /\ attempts' = as1
    /\ UNCHANGED <<mounted, url, contentModel, loaderInst, nInst, loaderModel,
                   modelError, onLoadLog, onErrorLog, delays, nUrlChanges,
                   viewerError>>

\* The url prop changes to u.  With a model shown, the cleanup of
\* ModelContent's effect (lines 141-155) tears it down and sets the model to
\* null, and line 180 mounts a new ModelLoader (fresh state).  The cleanup
\* runs twice on the old model: once for the render with the new url, and
\* once more for the render with the null model, because the effect
\* registered in between still has the old model in its closure; both runs
\* come before the new ModelLoader's effect starts the load.  With the
\* ModelLoader already mounted, only its effect re-runs (url is a dependency,
\* line 70): retryCount, model and modelError keep their values.
UrlChange(u) ==
    /\ mounted
    /\ u # url
    /\ nUrlChanges < MaxUrlChanges
    /\ Len(attempts) < MaxAttempts
    /\ url' = u
    /\ nUrlChanges' = nUrlChanges + 1
    /\ IF contentModel # 0
       THEN /\ contentModel' = ModelAfterTeardown(contentModel)
            /\ nInst' = nInst + 1
            /\ loaderInst' = nInst + 1
            /\ retryCount' = 0
            /\ loaderModel' = 0
            /\ modelError' = "null"
            /\ attempts' = Append(Teardown(contentModel, 2, attempts),
                                  NewAttempt(nInst + 1, u, 0))
       ELSE /\ attempts' = RunEffect(loaderInst, u, retryCount, attempts)
            /\ UNCHANGED <<contentModel, nInst, loaderInst, retryCount,
                           loaderModel, modelError>>
    /\ UNCHANGED <<mounted, onLoadLog, onErrorLog, delays, viewerError>>

\* The viewer unmounts: the cleanups of lines 69 and 142-154 run and the
\* components' state is dropped.  (No handleSaveModel call is in progress in
\* the specification that takes this step.)
Unmount ==
    /\ mounted
    /\ mounted' = FALSE
    /\ attempts' = Teardown(contentModel, 1, CancelOf(loaderInst, attempts))
    /\ loaderInst' = 0
    /\ contentModel' = 0
    /\ retryCount' = 0
    /\ loaderModel' = 0
    /\ modelError' = "null"
    /\ viewerError' = "null"
    /\ UNCHANGED <<url, nInst, onLoadLog, onErrorLog, delays, nUrlChanges>>

NextLoader ==
    \/ \E i \in DOMAIN attempts, throws \in BOOLEAN :
          LoadSucceeds(i, throws) /\ UNCHANGED <<matVars, lightVars, saveRest, colorVars>>
    \/ \E i \in DOMAIN attempts, err \in ErrValues :
          LoadFails(i, err) /\ UNCHANGED <<matVars, lightVars, saveRest, colorVars>>
    \/ \E i \in DOMAIN attempts :
          TimerFires(i) /\ UNCHANGED <<matVars, lightVars, saveRest, colorVars>>
    \/ \E u \in Urls : UrlChange(u) /\ UNCHANGED <<matVars, lightVars, saveRest, colorVars>>
    \/ Unmount /\ UNCHANGED <<matVars, lightVars, saveRest, colorVars>>

\* lines 49-67: the load of attempt i completes, one way or the other
Completes(i) ==
    \/ \E throws \in BOOLEAN :
          LoadSucceeds(i, throws) /\ UNCHANGED <<matVars, lightVars, saveRest, colorVars>>
    \/ \E err \in ErrValues :
          LoadFails(i, err) /\ UNCHANGED <<matVars, lightVars, saveRest, colorVars>>

\* line 59: the timer of attempt i fires
Fires(i) == TimerFires(i) /\ UNCHANGED <<matVars, lightVars, saveRest, colorVars>>

(***************************************************************************)
(* ModelContent: the material bookkeeping of one parsed scene.  A material *)
(* reference is an identity: two references are the same object exactly    *)
(* when they are equal.  An array of materials is one reference too.       *)
(* The shadow flags (lines 125-126) and the ground alignment (lines        *)
(* 129-131) touch no state modelled here.                                  *)
(***************************************************************************)
MeshIds == 1..NumMeshes

\* line 109: matteMaterial.current
MatteRef == "matte"

\* What a parsed mesh may carry: single materials and arrays of materials.
OrigRefs == {"matA", "matB", "arrAB", "arrB"}

ArrayRefs == {"arrAB", "arrB"}

\* materials.current.get(obj) of a mesh that was never recorded
NoRef == "undefined"

\* The material objects: the single materials of the asset and the matte one.
Materials == {"matA", "matB", MatteRef}

\* the materials a reference stands for: itself, or the array's elements
Elements(ref) ==
    CASE ref = "arrAB" -> {"matA", "matB"}
      [] ref = "arrB" -> {"matB"}
      [] ref = NoRef -> {}
      [] OTHER -> {ref}

NoDisposals ==
    /\ geomDisposals = [m \in MeshIds |-> 0]
    /\ matDisposals = [e \in Materials |-> 0]

InitMaterial ==
    /\ matPhase = "parsed"
    /\ meshOrig \in [MeshIds -> OrigRefs]
    /\ meshMaterial = meshOrig
    /\ materials = [m \in MeshIds |-> NoRef]
    /\ nToggles = 0
    /\ NoDisposals

\* A setup that leaves the mesh's material in place.
LoadedMaterialKept(cur) == cur

\* line 124: the material handleModelLoad gives a mesh whose material is cur
LoadedMaterial(cur) == MatteRef

\* lines 118-132: handleModelLoad on the parsed scene, setup not throwing
HandleModelLoad ==
    /\ matPhase = "parsed"
    /\ materials' = [m \in MeshIds |-> meshMaterial[m]]
    /\ meshMaterial' = [m \in MeshIds |-> LoadedMaterial(meshMaterial[m])]
    /\ matPhase' = "loaded"
    /\ UNCHANGED <<meshOrig, nToggles, geomDisposals, matDisposals>>

\* lines 120-136: the setup throws after the traversal handled the first k
\* meshes; setModel (line 132) is not reached.
HandleModelLoadThrows(k) ==
    /\ matPhase = "parsed"
    /\ materials' =
         [m \in MeshIds |-> IF m <= k THEN meshMaterial[m] ELSE materials[m]]
    /\ meshMaterial' =
         [m \in MeshIds |->
             IF m <= k THEN LoadedMaterial(meshMaterial[m]) ELSE meshMaterial[m]]
    /\ matPhase' = "failed"
    /\ UNCHANGED <<meshOrig, nToggles, geomDisposals, matDisposals>>

\* A toggle that never goes back to the matte material.
ToggleMaterialOneWay(cur, rec) ==
    IF cur = MatteRef
    THEN (IF rec # NoRef THEN rec ELSE cur)
    ELSE cur

\* lines 161-164: the material toggleTextures gives a mesh whose material is
\* cur and whose recorded one is rec
ToggleMaterial(cur, rec) ==
    IF cur = MatteRef
    THEN (IF rec # NoRef THEN rec ELSE cur)
    ELSE MatteRef

\* lines 157-167
ToggleTextures ==
    /\ nToggles < MaxToggles
    /\ IF matPhase # "loaded"
       THEN UNCHANGED <<meshMaterial, nToggles>>
       ELSE /\ meshMaterial' =
                 [m \in MeshIds |-> ToggleMaterial(meshMaterial[m], materials[m])]
            /\ nToggles' = nToggles + 1
    /\ UNCHANGED <<matPhase, meshOrig, materials, geomDisposals, matDisposals>>

\* A teardown that disposes the material the mesh has now.
DisposedRefCurrent(cur, rec) == cur

\* line 147: the reference whose materials the teardown disposes, for a
\* mesh whose material is cur and whose recorded one is rec
DisposedRef(cur, rec) == rec

\* lines 143-152: n runs of the effect cleanup on the loaded model.  Every
\* run disposes each mesh's geometry (line 146) and the materials of its
\* DisposedRef (lines 148-149; nothing when there is none).
RunTeardown(n) ==
    /\ geomDisposals' = [m \in MeshIds |-> geomDisposals[m] + n]
    /\ matDisposals' =
         [e \in Materials |->
             matDisposals[e]
               + n * Cardinality({m \in MeshIds :
                     e \in Elements(DisposedRef(meshMaterial[m], materials[m]))})]

\* The url prop changes while the model is shown: the cleanup runs twice on
\* it (see UrlChange) and the model is set to null.
UrlChangeTeardown ==
    /\ matPhase = "loaded"
    /\ RunTeardown(2)
    /\ matPhase' = "replaced"
    /\ UNCHANGED <<meshOrig, meshMaterial, materials, nToggles>>

\* The viewer unmounts while the model is shown: the cleanup runs once.
UnmountTeardown ==
    /\ matPhase = "loaded"
    /\ RunTeardown(1)
    /\ matPhase' = "unmounted"
    /\ UNCHANGED <<meshOrig, meshMaterial, materials, nToggles>>

NextMaterial ==
    \/ HandleModelLoad /\ UNCHANGED <<loaderVars, lightVars, saveVars, colorVars>>
    \/ \E k \in 0..NumMeshes :
          HandleModelLoadThrows(k) /\ UNCHANGED <<loaderVars, lightVars, saveVars, colorVars>>
    \/ ToggleTextures /\ UNCHANGED <<loaderVars, lightVars, saveVars, colorVars>>
    \/ UrlChangeTeardown /\ UNCHANGED <<loaderVars, lightVars, saveVars, colorVars>>
    \/ UnmountTeardown /\ UNCHANGED <<loaderVars, lightVars, saveVars, colorVars>>

(***************************************************************************)
(* MovableLight.  The updater handed to setLightState (lines 227-242) is   *)
(* taken to run inside the mousemove handler that queued it.               *)
(***************************************************************************)
\* line 225: the drag scale 0.05, as a percentage
ScalePercent == 5

\* position and intensity are counted in units of 0.05
UnitsPerOne == 100 \div ScalePercent

\* lines 24-28
INITIAL_LIGHT_STATE ==
    [x |-> 2 * UnitsPerOne, y |-> 2 * UnitsPerOne, z |-> 2 * UnitsPerOne,
     intensity |-> 1 * UnitsPerOne, temperature |-> 6500]

\* The pointer positions (clientX, clientY) the events may carry.
Points ==
    { [x |-> 100, y |-> 100], [x |-> 120, y |-> 140],
      [x |-> 110, y |-> 80], [x |-> 1020, y |-> 0] }

Min2(a, b) == IF a < b THEN a ELSE b
Max2(a, b) == IF a > b THEN a ELSE b

\* lines 225-226: d * 0.05, in units of 0.05
Scaled(d) == (d * ScalePercent * UnitsPerOne) \div 100

\* A temperature update without the clamp.
NewTempUnclamped(temperature, scaledDx) ==
    temperature + (scaledDx * 100) \div UnitsPerOne

\* line 229
NewTemp(temperature, scaledDx) ==
    Max2(2000, Min2(10000, temperature + (scaledDx * 100) \div UnitsPerOne))

\* An intensity update with the sign of the vertical axis flipped.
NewIntFlipped(intensity, scaledDy) ==
    Max2(0, Min2(6 * UnitsPerOne, intensity + scaledDy))

\* line 230
NewInt(intensity, scaledDy) ==
    Max2(0, Min2(6 * UnitsPerOne, intensity - scaledDy))

\* lines 228-241: the updater of setLightState
UpdateLight(prev, adjusting, scaledDx, scaledDy) ==
    IF adjusting
    THEN [prev EXCEPT !.intensity = NewInt(prev.intensity, scaledDy),
                      !.temperature = NewTemp(prev.temperature, scaledDx)]
    ELSE [prev EXCEPT !.x = prev.x + scaledDx,
                      !.y = prev.y - scaledDy]

\* A mousemove that leaves prevPos.current where it was.
MovedPrevPosKept(x, y) == prevPos

\* line 243: what prevPos.current is after a mousemove at (x, y)
MovedPrevPos(x, y) == [x |-> x, y |-> y]

\* lines 213-217: the mode flags after a shift-mousedown
DownFlags(alt, dragging, adjusting) ==
    IF alt THEN [dragging |-> dragging, adjusting |-> TRUE]
    ELSE [dragging |-> TRUE, adjusting |-> adjusting]

InitLight ==
    /\ lightState = INITIAL_LIGHT_STATE
    /\ isDragging = FALSE
    /\ isAdjusting = FALSE
    /\ prevPos = [x |-> 0, y |-> 0]
    /\ controlsSet = FALSE
    /\ controlsEnabled = TRUE
    /\ lastEvent = "mount"
    /\ downPos = [x |-> 0, y |-> 0]
    /\ downLight = INITIAL_LIGHT_STATE
    /\ nDrags = 0
    /\ dragMode = "idle"

\* lines 210-220
HandleMouseDown(x, y, shift, alt) ==
    /\ lastEvent' = "mousedown"
    /\ IF ~shift
       THEN UNCHANGED <<lightState, isDragging, isAdjusting, prevPos,
                        controlsSet, controlsEnabled, downPos, downLight,
                        nDrags, dragMode>>
       ELSE /\ nDrags < MaxDrags
            /\ nDrags' = nDrags + 1
            /\ isDragging' = DownFlags(alt, isDragging, isAdjusting).dragging
            /\ isAdjusting' = DownFlags(alt, isDragging, isAdjusting).adjusting
            /\ prevPos' = [x |-> x, y |-> y]
            /\ controlsEnabled' = IF controlsSet THEN FALSE ELSE controlsEnabled
            /\ downPos' = [x |-> x, y |-> y]
            /\ downLight' = lightState
            /\ dragMode' = IF dragMode # "idle" THEN dragMode
                            ELSE IF alt THEN "adjust" ELSE "reposition"
            /\ UNCHANGED <<lightState, controlsSet>>

\* lines 221-244
HandleMouseMove(x, y) ==
    /\ lastEvent' = "mousemove"
    /\ IF ~isDragging /\ ~isAdjusting
       THEN UNCHANGED <<lightState, prevPos>>
       ELSE LET dx == x - prevPos.x
                dy == y - prevPos.y
            IN  /\ lightState' =
                     UpdateLight(lightState, isAdjusting, Scaled(dx), Scaled(dy))
                /\ prevPos' = MovedPrevPos(x, y)
    /\ UNCHANGED <<isDragging, isAdjusting, controlsSet, controlsEnabled,
                   downPos, downLight, nDrags, dragMode>>

\* lines 245-249
HandleMouseUp ==
    /\ lastEvent' = "mouseup"
    /\ isDragging' = FALSE
    /\ isAdjusting' = FALSE
    /\ controlsEnabled' = IF controlsSet THEN TRUE ELSE controlsEnabled
    /\ dragMode' = "idle"
    /\ UNCHANGED <<lightState, prevPos, controlsSet, downPos, downLight, nDrags>>

\* lines 191-195: OrbitControls reports a change and registers itself
OrbitControlsChange ==
    /\ controlsSet' = TRUE
    /\ UNCHANGED <<lightState, isDragging, isAdjusting, prevPos,
                   controlsEnabled, lastEvent, downPos, downLight, nDrags,
                   dragMode>>

\* lines 202-205: the scene is mounted anew, with fresh state and refs
LightMount ==
    /\ lightState' = INITIAL_LIGHT_STATE
    /\ isDragging' = FALSE
    /\ isAdjusting' = FALSE
    /\ prevPos' = [x |-> 0, y |-> 0]
    /\ controlsSet' = FALSE
    /\ controlsEnabled' = TRUE
    /\ lastEvent' = "mount"
    /\ downPos' = [x |-> 0, y |-> 0]
    /\ downLight' = INITIAL_LIGHT_STATE
    /\ dragMode' = "idle"
    /\ UNCHANGED nDrags

NextLight ==
    \/ \E p \in Points, shift \in BOOLEAN, alt \in BOOLEAN :
          HandleMouseDown(p.x, p.y, shift, alt) /\ UNCHANGED <<loaderVars, matVars, saveVars, colorVars>>
    \/ \E p \in Points :
          HandleMouseMove(p.x, p.y) /\ UNCHANGED <<loaderVars, matVars, saveVars, colorVars>>
    \/ HandleMouseUp /\ UNCHANGED <<loaderVars, matVars, saveVars, colorVars>>
    \/ OrbitControlsChange /\ UNCHANGED <<loaderVars, matVars, saveVars, colorVars>>
    \/ LightMount /\ UNCHANGED <<loaderVars, matVars, saveVars, colorVars>>

(***************************************************************************)
(* ModelViewer: handleSaveModel.  The handler is async: it runs up to its  *)
(* first await in the click, and each settling of an awaited persistence   *)
(* call runs it up to the next await or to its end.  The Save button is    *)
(* rendered only with inputImage and resolution present (line 513), so the *)
(* test of line 374 passes in every call made through it.                  *)
(***************************************************************************)
Projects == {1}

\* What a persistence call may throw: an Error instance, or another value.
SaveErrValues ==
    { [isError |-> TRUE, message |-> "s1"],
      [isError |-> FALSE, message |-> "s1"] }

\* no handleSaveModel call is in progress
NoRun == [pc |-> "idle", project |-> 0]

\* line 423
SaveErrorMessage(err) == IF err.isError THEN err.message ELSE "Save failed"

\* A cleanup step that leaves the flag as it is.
SavingKeptAfterFinally(s) == s

\* lines 426-428: state.saving after the finally block
SavingAfterFinally(s) == FALSE

\* lines 313-319, with no currentProjectId given
InitSave ==
    /\ viewerError = "null"
    /\ saving = FALSE
    /\ saveSuccess = FALSE
    /\ selectedProjectId = 0
    /\ saveRun = NoRun
    /\ saveLog = <<>>

\* lines 361 and 516
SetSelectedProjectId(p) ==
    /\ p # selectedProjectId
    /\ selectedProjectId' = p
    /\ UNCHANGED <<viewerError, saving, saveSuccess, saveRun, saveLog>>

\* lines 373-379: the click on Save (enabled while not saving, line 547), up
\* to the await of checkModelExists
HandleSaveModel ==
    /\ mounted
    /\ ~saving
    /\ Len(saveLog) < MaxSaves
    /\ saving' = TRUE
    /\ viewerError' = "null"
    /\ saveRun' = [pc |-> "checkModelExists", project |-> selectedProjectId]
    /\ UNCHANGED <<saveSuccess, selectedProjectId, saveLog>>

\* lines 379-389 and 420-428: checkModelExists settles.  out: the model
\* exists, it does not, or the call throws err.
CheckModelExistsSettles(out, err) ==
    /\ saveRun.pc = "checkModelExists"
    /\ CASE out = "exists" ->
              /\ saving' = SavingAfterFinally(FALSE)
              /\ saveSuccess' = TRUE
              /\ saveRun' = NoRun
              /\ saveLog' = Append(saveLog, "exists")
              /\ UNCHANGED viewerError
         [] out = "absent" ->
              /\ saveRun' =
                   [saveRun EXCEPT !.pc = IF saveRun.project # 0
                                          THEN "saveModelToProject"
                                          ELSE "saveModelToDatabase"]
              /\ UNCHANGED <<viewerError, saving, saveSuccess, saveLog>>
         [] out = "throws" ->
              /\ viewerError' = SaveErrorMessage(err)
              /\ saving' = SavingAfterFinally(saving)
              /\ saveRun' = NoRun
              /\ saveLog' = Append(saveLog, "threw")
              /\ UNCHANGED saveSuccess
    /\ UNCHANGED selectedProjectId

\* lines 392-414 and 420-428: saveModelToProject settles.  out: a truthy
\* result, a falsy one, or the call throws err.
SaveModelToProjectSettles(out, err) ==
    /\ saveRun.pc = "saveModelToProject"
    /\ CASE out = "truthy" ->
              /\ saveSuccess' = TRUE
              /\ UNCHANGED viewerError
         [] out = "falsy" ->
              /\ viewerError' = "Failed to save model to project"
              /\ UNCHANGED saveSuccess
         [] out = "throws" ->
              /\ viewerError' = SaveErrorMessage(err)
              /\ UNCHANGED saveSuccess
    /\ saving' = SavingAfterFinally(saving)
    /\ saveRun' = NoRun
    /\ saveLog' = Append(saveLog, IF out = "throws" THEN "threw" ELSE out)
    /\ UNCHANGED selectedProjectId

\* lines 416-428: saveModelToDatabase settles.  out: it returns, or the call
\* throws err.
SaveModelToDatabaseSettles(out, err) ==
    /\ saveRun.pc = "saveModelToDatabase"
    /\ CASE out = "returns" ->
              /\ saveSuccess' = TRUE
              /\ UNCHANGED viewerError
         [] out = "throws" ->
              /\ viewerError' = SaveErrorMessage(err)
              /\ UNCHANGED saveSuccess
    /\ saving' = SavingAfterFinally(saving)
    /\ saveRun' = NoRun
    /\ saveLog' = Append(saveLog, IF out = "throws" THEN "threw" ELSE "truthy")
    /\ UNCHANGED selectedProjectId

CheckSettles ==
    \E out \in {"exists", "absent", "throws"}, err \in SaveErrValues :
        CheckModelExistsSettles(out, err) /\ UNCHANGED <<loaderVars, matVars, lightVars, colorVars>>

ProjectSettles ==
    \E out \in {"truthy", "falsy", "throws"}, err \in SaveErrValues :
        SaveModelToProjectSettles(out, err) /\ UNCHANGED <<loaderVars, matVars, lightVars, colorVars>>

DatabaseSettles ==
    \E out \in {"returns", "throws"}, err \in SaveErrValues :
        SaveModelToDatabaseSettles(out, err) /\ UNCHANGED <<loaderVars, matVars, lightVars, colorVars>>

\* The viewer with its url prop fixed and no unmount: the load chain of the
\* url, and the save handler next to it.
NextSave ==
    \/ HandleSaveModel /\ UNCHANGED <<loaderVars, matVars, lightVars, colorVars>>
    \/ \E p \in Projects :
          SetSelectedProjectId(p) /\ UNCHANGED <<loaderVars, matVars, lightVars, colorVars>>
    \/ CheckSettles
    \/ ProjectSettles
    \/ DatabaseSettles
    \/ \E i \in DOMAIN attempts, throws \in BOOLEAN :
          LoadSucceeds(i, throws) /\ UNCHANGED <<matVars, lightVars, saveRest, colorVars>>
    \/ \E i \in DOMAIN attempts, err \in ErrValues :
          LoadFails(i, err) /\ UNCHANGED <<matVars, lightVars, saveRest, colorVars>>
    \/ \E i \in DOMAIN attempts :
          TimerFires(i) /\ UNCHANGED <<matVars, lightVars, saveRest, colorVars>>

(***************************************************************************)
(* tempToColor (called by MovableLight at line 260).  Its arithmetic is    *)
(* carried out in fixed point: logarithms, exponents and powers in units   *)
(* of 1/FP, coefficients and channel values in hundredths.  Math.log and   *)
(* Math.pow are computed by their series, to about three decimals; the     *)
(* channel values are therefore the code's to within a few tenths.  A      *)
(* Kelvin value T stands for kelvin = T / 100 after line 568, so           *)
(* `kelvin <= 66` is T <= 6600.                                            *)
(***************************************************************************)
FP == 100 * 100

\* The temperatures tempToColor is called with.
Temps == 2000..10000

\* Math.log(n / d) in units of 1/FP, for n, d > 0: halve or double the
\* argument into [1, 2), then 2 * atanh((x - 1) / (x + 1)) by its series.
\* (A non-positive argument, for which Math.log gives NaN or -Infinity, has
\* no value here.)
RECURSIVE MathLog(_, _)
MathLog(n, d) ==
    CASE n > 0 /\ n >= 2 * d -> 6931 + MathLog(n, 2 * d)
      [] n > 0 /\ n < d -> MathLog(2 * n, d) - 6931
      [] n > 0 /\ n >= d /\ n < 2 * d ->
           LET z == ((n - d) * FP) \div (n + d)
               z2 == (z * z) \div FP
               t3 == (z * z2) \div FP
               t5 == (t3 * z2) \div FP
               t7 == (t5 * z2) \div FP
               t9 == (t7 * z2) \div FP
           IN  2 * (z + t3 \div 3 + t5 \div 5 + t7 \div 7 + t9 \div 9)

\* e^(y / FP) in units of 1/FP, for y in [-FP, 0], by its series
MathExp(y) ==
    LET t1 == y
        t2 == (t1 * y) \div (2 * FP)
        t3 == (t2 * y) \div (3 * FP)
        t4 == (t3 * y) \div (4 * FP)
        t5 == (t4 * y) \div (5 * FP)
        t6 == (t5 * y) \div (6 * FP)
        t7 == (t6 * y) \div (7 * FP)
    IN  FP + t1 + t2 + t3 + t4 + t5 + t6 + t7

\* Math.pow(n / d, -e / FP) in units of 1/FP, for n / d >= 1 and e > 0
MathPowNeg(n, d, e) == MathExp(- ((e * MathLog(n, d)) \div FP))

\* A channel left as computed.
ChannelUnclamped(v) == v

\* lines 572-575, 580-583, 585-592: Math.min(255, Math.max(0, v)), in
\* hundredths
ClampChannel(v) == Min2(255 * 100, Max2(0, v))

\* line 574: 99.4708025861 * Math.log(kelvin) - 161.1195681661
RawGreenLow(T) == (9947 * MathLog(T, 100)) \div FP - 16112

\* line 582: 138.5177312231 * Math.log(kelvin - 10) - 305.0447927307
RawBlueLow(T) == (13852 * MathLog(T - 1000, 100)) \div FP - 30504

\* line 587: 329.698727446 * Math.pow(kelvin - 60, -0.1332047592)
RawRedHigh(T) == (32970 * MathPowNeg(T - 6000, 100, 1332)) \div FP

\* line 591: 288.1221695283 * Math.pow(kelvin - 60, -0.0755148492)
RawGreenHigh(T) == (28812 * MathPowNeg(T - 6000, 100, 755)) \div FP

\* lines 567-595: the channels of tempToColor(T), in hundredths
tempToColor(T) ==
    IF T <= 6600
    THEN [red |-> 255 * 100,
          green |-> ClampChannel(RawGreenLow(T)),
          blue |-> IF T <= 1900 THEN 0 ELSE ClampChannel(RawBlueLow(T))]
    ELSE [red |-> ClampChannel(RawRedHigh(T)),
          green |-> ClampChannel(RawGreenHigh(T)),
          blue |-> 255 * 100]

\* no call made yet
NoColor == [done |-> FALSE, red |-> 0, green |-> 0, blue |-> 0]

\* line 260, with the initial temperature, before the call
InitColor ==
    /\ kelvin = INITIAL_LIGHT_STATE.temperature
    /\ color = NoColor

\* a call with any temperature of the range
ColorInputs ==
    /\ kelvin \in Temps
    /\ color = NoColor

\* lines 567-595: the call returns
TempToColorReturns ==
    /\ ~color.done
    /\ color' = [done |-> TRUE, red |-> tempToColor(kelvin).red,
                 green |-> tempToColor(kelvin).green,
                 blue |-> tempToColor(kelvin).blue]
    /\ UNCHANGED kelvin

NextColor ==
    TempToColorReturns /\ UNCHANGED <<loaderVars, matVars, lightVars, saveVars>>

(***************************************************************************)
(* The specifications.  Each subsystem starts from its initial state; the  *)
(* material bookkeeping starts from any parsed scene.                      *)
(***************************************************************************)
\* A fixed parsed scene, for the specifications that do not move it.
IdleMaterial ==
    /\ matPhase = "parsed"
    /\ meshOrig = [m \in MeshIds |-> "matA"]
    /\ meshMaterial = meshOrig
    /\ materials = [m \in MeshIds |-> NoRef]
    /\ nToggles = 0
    /\ NoDisposals

\* The viewer right after its first mount, with a fixed parsed scene.
Start == InitLoader /\ IdleMaterial /\ InitLight /\ InitSave /\ InitColor

\* The same, with a tempToColor call of any temperature of the range.
ColorStart == InitLoader /\ IdleMaterial /\ InitLight /\ InitSave /\ ColorInputs

\* The same, with any parsed scene.
MaterialStart ==
    InitLoader /\ InitMaterial /\ InitLight /\ InitSave /\ InitColor

SpecLoader == Start /\ [][NextLoader]_vars

SpecMaterial == MaterialStart /\ [][NextMaterial]_vars

SpecLight == Start /\ [][NextLight]_vars

\* The viewer with one url and no unmount, where every load completes and
\* every timer fires (the persistence calls may settle or not).
SpecChain ==
    /\ Start
    /\ [][NextSave]_vars
    /\ \A i \in 1..MaxAttempts : WF_vars(Completes(i)) /\ WF_vars(Fires(i))

SpecColor == ColorStart /\ [][NextColor]_vars

\* Every awaited persistence call settles: it returns or it throws.
SpecSave ==
    /\ Start
    /\ [][NextSave]_vars
    /\ WF_vars(CheckSettles)
    /\ WF_vars(ProjectSettles)
    /\ WF_vars(DatabaseSettles)

(***************************************************************************)
(* Claims about ModelLoader (SpecLoader).                                  *)
(***************************************************************************)
\* The url never changed and the viewer is mounted: attempts is one chain.
SingleUrl == mounted /\ nUrlChanges = 0

LoaderErrors == {k \in DOMAIN onErrorLog : onErrorLog[k].by = "loader"}

FailsThriceThenLoads ==
    /\ SingleUrl
    /\ Len(attempts) = 4
    /\ \A i \in 1..3 : attempts[i].status = "failed"
    /\ attempts[4].status = "loaded"

\* C1: when the load of a single url fails on attempts 1, 2 and 3 and
\* succeeds on attempt 4, ModelLoader has never called onError, has called
\* onLoad exactly once (with the scene of attempt 4), and the timers it
\* scheduled have the delays 0, 1000 and 2000 ms, in that order.
C1_ThreeFailuresThenSuccess ==
    FailsThriceThenLoads =>
        /\ LoaderErrors = {}
        /\ onLoadLog = <<4>>
        /\ delays = <<0, 1000, 2000>>

C1_Witness ==
    /\ FailsThriceThenLoads
    /\ contentModel = 4
    /\ Len(delays) = 3

FailsFourTimes ==
    /\ SingleUrl
    /\ Len(attempts) >= 4
    /\ \A i \in 1..4 : attempts[i].status = "failed"

\* C2 as stated: after four consecutive failures of a single url, onError
\* was called exactly once, with the message of the error of the 4th
\* failure, and no attempt or timer is started after it.
C2_Original ==
    FailsFourTimes =>
        /\ Len(onErrorLog) = 1
        /\ onErrorLog[1].msg = onErrorLog[1].err.message
        /\ Len(attempts) = 4
        /\ \A i \in DOMAIN attempts : attempts[i].timer # "pending"

\* C2: after four consecutive failures of a single url, onError was called
\* exactly once, by the 4th failure and not before it, with that error's
\* message when the error is an Error instance and with "Failed to load
\* model" otherwise; no further attempt is started and no timer is pending.
C2_FourFailures ==
    /\ (SingleUrl /\ LoaderErrors # {}) => FailsFourTimes
    /\ FailsFourTimes =>
        /\ Len(onErrorLog) = 1
        /\ onErrorLog[1].by = "loader"
        /\ onErrorLog[1].msg =
             IF onErrorLog[1].err.isError
             THEN onErrorLog[1].err.message
             ELSE "Failed to load model"
        /\ modelError = onErrorLog[1].msg
        /\ Len(attempts) = 4
        /\ \A i \in DOMAIN attempts :
              attempts[i].timer # "pending" /\ attempts[i].status # "inflight"

C2_Witness ==
    /\ FailsFourTimes
    /\ Len(onErrorLog) = 1
    /\ onErrorLog[1].msg = "e2"
    /\ delays = <<0, 1000, 2000>>

\* C3: the completion (success or failure) of an attempt that was cancelled
\* before it completed changes neither ModelContent's nor ModelLoader's
\* model, calls neither onLoad nor onError, and schedules no retry; and the
\* model ModelContent shows always comes from a load of the current url.
C3_StaleCompletionIgnored ==
    [][ /\ \A i \in DOMAIN attempts :
             ( /\ attempts[i].canceled
               /\ attempts[i].status = "inflight"
               /\ attempts'[i].status # "inflight" )
             => /\ contentModel' = contentModel
                /\ loaderModel' = loaderModel
                /\ modelError' = modelError
                /\ retryCount' = retryCount
                /\ onLoadLog' = onLoadLog
                /\ onErrorLog' = onErrorLog
                /\ delays' = delays
        /\ contentModel' # 0 => attempts'[contentModel'].url = url'
      ]_vars

\* A load of the previous url completed successfully after the url changed,
\* and the model shown is the one loaded for the new url.
C3_Witness ==
    /\ contentModel # 0
    /\ \E i \in DOMAIN attempts :
          /\ i < contentModel
          /\ attempts[i].url # url
          /\ attempts[i].status = "loaded"
          /\ ~attempts[i].applied

\* C4 as stated: the timer of an attempt that is cancelled when the timer
\* fires leaves retryCount as it is.
C4_CancelledTimerSuppressed ==
    [][ \A i \in DOMAIN attempts :
            ( /\ attempts[i].canceled
              /\ attempts[i].timer = "pending"
              /\ attempts'[i].timer = "fired" )
            => retryCount' = retryCount
      ]_vars

\* C5 as stated: a step that changes the url leaves retryCount at 0.
C5_UrlChangeResetsRetryCount ==
    [][ url' # url => retryCount' = 0 ]_vars

\* C6 as stated: retryCount is between 0 and maxRetries in every state.
C6_RetryCountBounded ==
    retryCount >= 0 /\ retryCount <= maxRetries

(***************************************************************************)
(* Claims about the material bookkeeping (SpecMaterial).                   *)
(***************************************************************************)
\* C7 as stated: after two toggleTextures calls on the loaded model every
\* mesh's material is the reference recorded for it at load time.
C7_Original ==
    (matPhase = "loaded" /\ nToggles = 2) =>
        \A m \in MeshIds : meshMaterial[m] = materials[m]

\* C7: on a loaded model the recorded reference of every mesh is the one
\* the parsed asset gave it; after an even number of toggleTextures calls
\* every mesh has the shared matte material and after an odd number it has
\* its recorded reference.  So two calls return every mesh to the reference
\* it had before them: the recorded one only when they start from it.
C7_ToggleTwiceRestores ==
    matPhase = "loaded" =>
        /\ materials = meshOrig
        /\ nToggles % 2 = 0 => \A m \in MeshIds : meshMaterial[m] = MatteRef
        /\ nToggles % 2 = 1 => \A m \in MeshIds : meshMaterial[m] = materials[m]

\* Two toggles after one: back on the recorded references, one an array.
C7_Witness ==
    /\ matPhase = "loaded"
    /\ nToggles = 3
    /\ \A m \in MeshIds : meshMaterial[m] = meshOrig[m]
    /\ \E m \in MeshIds : meshOrig[m] \in ArrayRefs
    /\ \E m \in MeshIds : meshOrig[m] \notin ArrayRefs

(***************************************************************************)
(* Claims about MovableLight (SpecLight).                                  *)
(***************************************************************************)
Clamp(v, lo, hi) == IF v < lo THEN lo ELSE IF v > hi THEN hi ELSE v

\* The light is being repositioned.
Reposition == isDragging /\ ~isAdjusting

C9_AdjustStep ==
    [][ (lastEvent' = "mousemove" /\ isAdjusting) =>
          LET dx == prevPos'.x - prevPos.x
              dy == prevPos'.y - prevPos.y
          IN  /\ lightState'.temperature =
                   Clamp(lightState.temperature + 5 * dx, 2000, 10000)
              /\ 100 * lightState'.intensity =
                   Clamp(100 * lightState.intensity
                           - ScalePercent * dy * UnitsPerOne,
                         0, 100 * 6 * UnitsPerOne)
              /\ lightState'.x = lightState.x
              /\ lightState'.y = lightState.y
              /\ lightState'.z = lightState.z
      ]_vars

\* From intensity 1 and temperature 6500, the move (10, -20): 6550 and 2.0.
C9_Witness ==
    /\ isAdjusting
    /\ lastEvent = "mousemove"
    /\ downLight = INITIAL_LIGHT_STATE
    /\ downPos = [x |-> 100, y |-> 100]
    /\ prevPos = [x |-> 110, y |-> 80]
    /\ lightState.temperature = 6550
    /\ lightState.intensity = 2 * UnitsPerOne
    /\ lightState.x = INITIAL_LIGHT_STATE.x

\* C10: in every state temperature is within [2000, 10000] and intensity
\* within [0, 6].
C10_LightInRange ==
    /\ lightState.temperature >= 2000
    /\ lightState.temperature <= 10000
    /\ lightState.intensity >= 0
    /\ lightState.intensity <= 6 * UnitsPerOne

\* A move that would take temperature below 2000 and intensity below 0.
C10_Witness ==
    /\ lastEvent = "mousemove"
    /\ isAdjusting
    /\ lightState.temperature = 2000
    /\ lightState.intensity = 0
    /\ downLight = INITIAL_LIGHT_STATE

(***************************************************************************)
(* Claims about ModelContent's model and its teardown (SpecLoader).        *)
(***************************************************************************)
\* Attempt i's scene was made ModelContent's model.
Shown(i) ==
    /\ attempts[i].status = "loaded"
    /\ attempts[i].applied
    /\ ~attempts[i].threw

\* C11: ModelContent holds one model at most; the model it holds was
\* loaded for the current url, was never torn down and no load was started
\* after it; and once a load has been started after a model was shown (the
\* url changed), that model is not the current one and its teardown
\* (geometries and recorded materials disposed) has run.
C11_OldModelDisposedBeforeNewLoad ==
    /\ contentModel # 0 => contentModel \in DOMAIN attempts /\ Shown(contentModel)
    /\ \A i \in DOMAIN attempts :
          Shown(i) =>
             /\ contentModel = i =>
                   /\ attempts[i].url = url
                   /\ attempts[i].disposals = 0
                   /\ Len(attempts) = i
             /\ Len(attempts) > i =>
                   /\ contentModel # i
                   /\ attempts[i].disposals >= 1
             /\ contentModel # i => attempts[i].disposals >= 1

\* A model was shown, the url changed, and the new url's model is shown.
C11_Witness ==
    /\ contentModel # 0
    /\ attempts[contentModel].url = url
    /\ \E i \in DOMAIN attempts :
          /\ i < contentModel
          /\ Shown(i)
          /\ attempts[i].url # url
          /\ attempts[i].disposals = 2

SetupErrors == {k \in DOMAIN onErrorLog : onErrorLog[k].by = "setup"}

\* C12 as stated: a scene whose setup threw is reported once through
\* onError with the setup message, is the model of no component (neither
\* ModelContent nor ModelLoader), and the ModelLoader that loaded it still
\* shows the loading state (no model, no error).
C12_SetupFailureLeavesNoModel ==
    /\ Cardinality(SetupErrors)
         = Cardinality({i \in DOMAIN attempts : attempts[i].threw})
    /\ \A k \in SetupErrors : onErrorLog[k].msg = SetupMessage
    /\ \A i \in DOMAIN attempts :
          attempts[i].threw =>
             /\ contentModel # i
             /\ loaderModel # i
             /\ loaderInst = attempts[i].inst =>
                   loaderModel = 0 /\ modelError = "null"

(***************************************************************************)
(* Claims about handleSaveModel (SpecSave).                                *)
(***************************************************************************)
\* C13: a handleSaveModel call that set saving to true sets it back to
\* false once its persistence calls have settled, whatever their outcome:
\* saving is true exactly while a call is in progress, and every state with
\* saving true is followed by one with saving false.  No step of the
\* handler changes ModelContent's or ModelLoader's model, the url, the
\* loads in progress or made, or the teardowns run.
C13_SavingAlwaysCleared ==
    /\ [](saving <=> saveRun # NoRun)
    /\ saving ~> ~saving
    /\ [][ saveRun' # saveRun =>
             /\ contentModel' = contentModel
             /\ loaderModel' = loaderModel
             /\ url' = url
             /\ attempts' = attempts
             /\ matVars' = matVars ]_vars

\* With a model shown, one save ended by a throw and one by a falsy result.
C13_Witness ==
    /\ contentModel # 0
    /\ ~saving
    /\ saveLog = <<"threw", "falsy">>
    /\ viewerError = "Failed to save model to project"

(***************************************************************************)
(* Claims about tempToColor (SpecColor).                                   *)
(***************************************************************************)
\* C14: for every temperature in [2000, 10000] Kelvin, each of the red,
\* green and blue values tempToColor returns is within [0, 255].
C14_ChannelsInRange ==
    (color.done /\ kelvin >= 2000 /\ kelvin <= 10000) =>
        /\ color.red >= 0 /\ color.red <= 255 * 100
        /\ color.green >= 0 /\ color.green <= 255 * 100
        /\ color.blue >= 0 /\ color.blue <= 255 * 100

\* The call at 6600 K, where the green formula gives more than 255 and is
\* clamped.
C14_Witness ==
    /\ color.done
    /\ kelvin = 6600
    /\ RawGreenLow(kelvin) > 255 * 100
    /\ color.green = 255 * 100
    /\ color.red = 255 * 100
    /\ color.blue > 0 /\ color.blue < 255 * 100

(***************************************************************************)
(* Claims about MovableLight's modes and the camera controls (SpecLight).  *)
(***************************************************************************)
\* C15 as stated: in every state at most one of isDragging and isAdjusting
\* is true.
C15_ModesExclusive == ~(isDragging /\ isAdjusting)

\* C16 as stated: a mousemove during a drag is applied in the mode chosen
\* by the shift-mousedown that started the drag: in a Reposition drag it
\* leaves intensity and temperature as they are, in an Adjust drag it
\* leaves the position as it is.
C16_ModeFixedDuringDrag ==
    [][ lastEvent' = "mousemove" =>
          /\ dragMode = "reposition" =>
                /\ lightState'.intensity = lightState.intensity
                /\ lightState'.temperature = lightState.temperature
          /\ dragMode = "adjust" =>
                /\ lightState'.x = lightState.x
                /\ lightState'.y = lightState.y
                /\ lightState'.z = lightState.z
      ]_vars

\* C17 as stated: while a drag is in progress, camera controls that are
\* present on the scene are disabled; with no drag in progress they are
\* enabled.
C17_ControlsDisabledDuringDrag ==
    controlsSet =>
        /\ dragMode # "idle" => ~controlsEnabled
        /\ dragMode = "idle" => controlsEnabled

(***************************************************************************)
(* Claims about the teardown and the materials of the loaded model         *)
(* (SpecMaterial).                                                         *)
(***************************************************************************)
\* the runs of the teardown on the model so far
TeardownRuns ==
    CASE matPhase = "replaced" -> 2
      [] matPhase = "unmounted" -> 1
      [] OTHER -> 0

\* the meshes whose recorded material is, or has as an element, e
RecordedOn(e) == {m \in MeshIds : e \in Elements(materials[m])}

\* C18: the teardown has run exactly when the url changed or the viewer
\* unmounted with the model loaded (twice on a url change, with no error);
\* each run disposed the geometry of every mesh and, for every mesh, every
\* material recorded for it at load time (each element of a recorded
\* array), whether the mesh had the matte or the recorded material; the
\* matte material is never disposed.
C18_TeardownDisposesRecorded ==
    /\ \A m \in MeshIds : geomDisposals[m] = TeardownRuns
    /\ \A e \in Materials :
          matDisposals[e] = TeardownRuns * Cardinality(RecordedOn(e))
    /\ TeardownRuns > 0 =>
          /\ materials = meshOrig
          /\ \A m \in MeshIds : \A e \in Elements(meshOrig[m]) :
                matDisposals[e] >= TeardownRuns

\* The teardown ran twice on a model with an array and a single material,
\* while its meshes had the matte material.
C18_Witness ==
    /\ matPhase = "replaced"
    /\ meshOrig[1] = "arrAB"
    /\ meshOrig[2] = "matA"
    /\ \A m \in MeshIds : meshMaterial[m] = MatteRef
    /\ geomDisposals[1] = 2
    /\ matDisposals["matA"] = 4
    /\ matDisposals["matB"] = 2

\* C20: on the loaded model, after the load and after any number of
\* toggleTextures calls, every mesh's material is the matte material or
\* the reference recorded for that mesh at load time; with no toggle made
\* since the load it is the matte material for every mesh.
C20_MatteOrRecorded ==
    matPhase = "loaded" =>
        /\ \A m \in MeshIds : meshMaterial[m] \in {MatteRef, materials[m]}
        /\ \A m \in MeshIds : materials[m] = meshOrig[m]
        /\ nToggles = 0 => \A m \in MeshIds : meshMaterial[m] = MatteRef

\* One toggle after the load: every mesh has its recorded reference, and
\* the two meshes have different ones.
C20_Witness ==
    /\ matPhase = "loaded"
    /\ nToggles = 1
    /\ \A m \in MeshIds : meshMaterial[m] = materials[m]
    /\ materials[1] # materials[2]
    /\ materials[1] \in ArrayRefs

(***************************************************************************)
(* Claims about the end of a load chain (SpecChain).                       *)
(***************************************************************************)
\* ModelLoader called onLoad; ModelLoader called onError
Delivered == Len(onLoadLog) > 0
TerminalError == LoaderErrors # {}

\* no load is in progress and no timer is pending
ChainQuiet ==
    \A i \in DOMAIN attempts :
        attempts[i].status # "inflight" /\ attempts[i].timer # "pending"

\* C19: with no url change and no unmount, every load completing and every
\* timer firing, the chain ends: ModelLoader calls onLoad or calls onError
\* with a terminal error.  It makes at most maxRetries + 1 = 4 attempts,
\* never has both outcomes, has each at most once, and once it has one no
\* load is in progress and no timer is pending; before that one of the two
\* is, so the chain is never stuck in the loading state.
C19_ChainTerminates ==
    /\ <>(Delivered \/ TerminalError)
    /\ [](/\ Len(attempts) <= maxRetries + 1
          /\ ~(Delivered /\ TerminalError)
          /\ Len(onLoadLog) <= 1
          /\ Cardinality(LoaderErrors) <= 1
          /\ (Delivered \/ TerminalError) <=> ChainQuiet)

\* The longest chain ending in a delivery: three failures, then the model.
C19_Witness ==
    /\ Len(attempts) = maxRetries + 1
    /\ Delivered
    /\ ~TerminalError
    /\ ChainQuiet
    /\ contentModel = maxRetries + 1
    /\ nUrlChanges = 0

====
